---- MODULE Spec2Model ----
(***************************************************************************)
(* Tile-based Mandelbrot renderer (termux_friendly_mandelbrot.py).         *)
(*                                                                         *)
(* render_mandelbrot_tiled is modelled as a sequential state machine, one  *)
(* action per statement group; mandelbrot_tile is a pure operator.         *)
(*                                                                         *)
(* Numbers.  Python floats are modelled as fixed-point numbers: the        *)
(* integer n stands for the real n / Scale, and every product or quotient  *)
(* is rounded to the nearest representable value, as a float operation is. *)
(* np.log is a table in units of 1/1000; the values nan and -inf that      *)
(* numpy produces are kept as such.                                        *)
(***************************************************************************)
EXTENDS Integers, Sequences, FiniteSets, TLC

\* ------------------------------------------------------------------ bounds
MaxWidth == 3
MaxHeight == 3
MaxIter == 4
MaxTile == 3
Scale == 4
\* tile grids explored in every processing order (SpecAnyOrder)
MaxParWidth == 2
MaxParHeight == 2
\* largest |coordinate| (in whole units) handed to mandelbrot_tile in SpecTile
MaxCoord == 3

\* ------------------------------------------------------- program constants
threshold == 4

VARIABLES
    pc,             \* position in render_mandelbrot_tiled / the driver
    width, height, max_iter, x_min, x_max, y_min, y_max, tile_size,
    x_scale, y_scale,
    allocated,      \* np.zeros at line 58 has run
    result,         \* the Divergence Buffer
    tiles_x, tiles_y,
    ty, tx,         \* the loop counters of lines 73-74
    X_tile, Y_tile, \* the coordinate grids of the tile being evaluated
    tile_result,    \* what mandelbrot_tile returned last
    mandelbrot_set, \* the uint8 array of line 107
    img,            \* TRUE once Image.fromarray has produced the image
    divisor,        \* the value np.max returned at line 106
    processed,      \* the tiles (ty, tx) whose line 96 has run
    writes          \* per cell: how many times line 96 has assigned it

vars == <<pc, width, height, max_iter, x_min, x_max, y_min, y_max, tile_size,
          x_scale, y_scale, allocated, result, tiles_x, tiles_y, ty, tx,
          X_tile, Y_tile, tile_result, mandelbrot_set, img, divisor,
          processed, writes>>

\* ------------------------------------------------------------- arithmetic
Min(a, b) == IF a <= b THEN a ELSE b

Max(a, b) == IF a >= b THEN a ELSE b

\* Python's // on integers: floor of the quotient, for either sign of b.
PyFloorDiv(a, b) == IF b > 0 THEN a \div b ELSE (0 - a) \div (0 - b)

\* a / b rounded to the nearest integer (b # 0).
RoundDiv(a, b) ==
    IF b > 0 THEN (2 * a + b) \div (2 * b)
             ELSE (2 * (0 - a) + (0 - b)) \div (2 * (0 - b))

\* float * float
FMul(a, b) == RoundDiv(a * b, Scale)

\* float / int
FDivInt(a, n) == RoundDiv(a, n)

\* ------------------------------------------------------------------ arrays
\* A 2-D numpy array: its shape (h, w) and its cells <<row, column>>.
Cells(h, w) == (0 .. h - 1) \X (0 .. w - 1)

\* The array of shape (h, w) whose cell c holds f[c].
Array(h, w, f) == [h |-> h, w |-> w, at |-> [c \in Cells(h, w) |-> f[c]]]

np_zeros(h, w) == Array(h, w, [c \in Cells(h, w) |-> 0])

NoArray == np_zeros(0, 0)

\* len(np.arange(a, b))
ArangeLen(a, b) == Max(b - a, 0)

\* Python slice a[start:end] on an axis of length n: the indices it selects.
SliceIndex(i, n) == IF i < 0 THEN Max(i + n, 0) ELSE Min(i, n)

SliceStart(start, end, n) == SliceIndex(start, n)

SliceLen(start, end, n) == Max(SliceIndex(end, n) - SliceIndex(start, n), 0)

\* ------------------------------------------------- Escape-Time Evaluator
\* Variant of EscapeLoop: the else branch of line 38 records max_iter.
RECURSIVE EscapeLoopCap(_, _, _, _, _, _)
EscapeLoopCap(cr, ci, zr, zi, k, mi) ==
    IF k >= mi THEN mi
    ELSE LET zr2 == FMul(zr, zr)
             zi2 == FMul(zi, zi)
         IN  IF zr2 + zi2 > threshold * Scale THEN k
             ELSE EscapeLoopCap(cr, ci,
                                zr2 - zi2 + cr,
                                FMul(2 * zr, zi) + ci,
                                k + 1, mi)

\* Variant of EscapeLoop: lines 35-36 swapped, so that zi is computed from
\* the zr already updated.
RECURSIVE EscapeLoopStale(_, _, _, _, _, _)
EscapeLoopStale(cr, ci, zr, zi, k, mi) ==
    IF k >= mi THEN mi - 1
    ELSE LET zr2 == FMul(zr, zr)
             zi2 == FMul(zi, zi)
             zrn == zr2 - zi2 + cr
         IN  IF zr2 + zi2 > threshold * Scale THEN k
             ELSE EscapeLoopStale(cr, ci,
                                  zrn,
                                  FMul(2 * zrn, zi) + ci,
                                  k + 1, mi)

\* The k-loop of lines 29-38 for one point, entered at iteration k with
\* orbit value (zr, zi).  The for/else records max_iter - 1 when the loop
\* runs out without a break (also when range(max_iter) is empty).
RECURSIVE EscapeLoop(_, _, _, _, _, _)
EscapeLoop(cr, ci, zr, zi, k, mi) ==
    IF k >= mi THEN mi - 1
    ELSE LET zr2 == FMul(zr, zr)
             zi2 == FMul(zi, zi)
         IN  IF zr2 + zi2 > threshold * Scale THEN k
             ELSE EscapeLoop(cr, ci,
                             zr2 - zi2 + cr,
                             FMul(2 * zr, zi) + ci,
                             k + 1, mi)

\* Variant of EscapeCount: the orbit starts at z = c instead of line 26's 0.
EscapeCountFromC(cr, ci, mi) == EscapeLoop(cr, ci, cr, ci, 0, mi)

\* Lines 24-38: the count recorded for the point (cr, ci).
EscapeCount(cr, ci, mi) == EscapeLoop(cr, ci, 0, 0, 0, mi)

\* Lines 12-40.
mandelbrot_tile(c_real, c_imag, mi) ==
    Array(c_real.h, c_real.w,
          [c \in Cells(c_real.h, c_real.w) |->
              EscapeCount(c_real.at[c], c_imag.at[c], mi)])

\* ----------------------------------------------------- Coordinate Mapper
\* Lines 54-55.
ScaleOf(lo, hi, n) == FDivInt(hi - lo, n)

\* Variant of TileRect: the end of a tile taken inclusive (one cell more).
TileRectInclusive(ty_, tx_, ts, w, h) ==
    [x_start |-> tx_ * ts,
     y_start |-> ty_ * ts,
     x_end   |-> Min(tx_ * ts + ts + 1, w),
     y_end   |-> Min(ty_ * ts + ts + 1, h)]

\* Lines 76-79: the tile (ty_, tx_) of a raster w x h cut in tiles of ts.
TileRect(ty_, tx_, ts, w, h) ==
    [x_start |-> tx_ * ts,
     y_start |-> ty_ * ts,
     x_end   |-> Min(tx_ * ts + ts, w),
     y_end   |-> Min(ty_ * ts + ts, h)]

\* Variant of MeshX: the columns are numbered from the tile's own origin.
MeshXLocal(rect, xmin, xscale) ==
    LET h == ArangeLen(rect.y_start, rect.y_end)
        w == ArangeLen(rect.x_start, rect.x_end)
    IN  Array(h, w, [c \in Cells(h, w) |-> xmin + c[2] * xscale])

\* Lines 84-90: np.meshgrid of the mapped columns and rows of a tile.
MeshX(rect, xmin, xscale) ==
    LET h == ArangeLen(rect.y_start, rect.y_end)
        w == ArangeLen(rect.x_start, rect.x_end)
    IN  Array(h, w, [c \in Cells(h, w) |-> xmin + (rect.x_start + c[2]) * xscale])

MeshY(rect, ymin, yscale) ==
    LET h == ArangeLen(rect.y_start, rect.y_end)
        w == ArangeLen(rect.x_start, rect.x_end)
    IN  Array(h, w, [c \in Cells(h, w) |-> ymin + (rect.y_start + c[1]) * yscale])

\* -------------------------------------------------------- Tile assembly
\* Variant of TileCount: floor instead of ceiling division.
TileCountFloor(n, ts) == PyFloorDiv(n, ts)

\* Lines 61-62.
TileCount(n, ts) == PyFloorDiv(n + ts - 1, ts)

\* The cells result[y_start:y_end, x_start:x_end] selects.
SliceCells(buf, rect) ==
    LET r0 == SliceStart(rect.y_start, rect.y_end, buf.h)
        c0 == SliceStart(rect.x_start, rect.x_end, buf.w)
    IN  (r0 .. r0 + SliceLen(rect.y_start, rect.y_end, buf.h) - 1)
        \X (c0 .. c0 + SliceLen(rect.x_start, rect.x_end, buf.w) - 1)

\* numpy accepts the assignment of line 96 when the shapes agree.
ShapesAgree(buf, rect, tile) ==
    /\ SliceLen(rect.y_start, rect.y_end, buf.h) = tile.h
    /\ SliceLen(rect.x_start, rect.x_end, buf.w) = tile.w

\* Variant of PlaceTile: result[:tile_height, :tile_width] = tile_result,
\* the tile's offset forgotten.
PlaceTileNoOffset(buf, rect, tile) ==
    [buf EXCEPT !.at =
        [c \in Cells(buf.h, buf.w) |->
            IF c[1] < tile.h /\ c[2] < tile.w
            THEN tile.at[c] ELSE buf.at[c]]]

\* Line 96: result[y_start:y_end, x_start:x_end] = tile_result.
PlaceTile(buf, rect, tile) ==
    LET r0 == SliceStart(rect.y_start, rect.y_end, buf.h)
        c0 == SliceStart(rect.x_start, rect.x_end, buf.w)
    IN  [buf EXCEPT !.at =
            [c \in Cells(buf.h, buf.w) |->
                IF c \in SliceCells(buf, rect)
                THEN tile.at[<<c[1] - r0, c[2] - c0>>]
                ELSE buf.at[c]]]

\* Variant of NextTile: the inner loop left after its first tile.
NextTileBreak(ty_, tx_, tilesx) == <<ty_ + 1, 0>>

\* The successor of (ty_, tx_) in the nested loops of lines 73-74.
NextTile(ty_, tx_, tilesx) ==
    IF tx_ + 1 < tilesx THEN <<ty_, tx_ + 1>> ELSE <<ty_ + 1, 0>>

\* The loops of lines 73-96 run from tile (ty_, tx_) on buffer buf to
\* their end, for a tile size ts: the buffer they leave.
RECURSIVE TileLoop(_, _, _, _, _, _, _, _, _, _, _)
TileLoop(buf, ty_, tx_, ts, w, h, xmin, xscale, ymin, yscale, mi) ==
    IF ~(ty_ < TileCount(h, ts) /\ tx_ < TileCount(w, ts)) THEN buf
    ELSE LET rect == TileRect(ty_, tx_, ts, w, h)
             tile == mandelbrot_tile(MeshX(rect, xmin, xscale),
                                     MeshY(rect, ymin, yscale), mi)
             nxt  == NextTile(ty_, tx_, TileCount(w, ts))
         IN  TileLoop(PlaceTile(buf, rect, tile), nxt[1], nxt[2],
                      ts, w, h, xmin, xscale, ymin, yscale, mi)

\* -------------------------------------------------------- Post-Processor
\* Float values that line 105-106 can produce: finite (in 1/1000), -inf, nan.
Fin(v) == [k |-> "fin", v |-> v]

NegInf == [k |-> "ninf", v |-> 0]

NaN == [k |-> "nan", v |-> 0]

\* ln 1 .. ln 8, in units of 1/1000.
LogTable == <<0, 693, 1099, 1386, 1609, 1792, 1946, 2079>>

\* np.log of an integer: -inf at 0 and nan below (numpy warns, no exception).
np_log(n) == IF n > 0 THEN Fin(LogTable[n]) ELSE IF n = 0 THEN NegInf ELSE NaN

SetMax(S) == CHOOSE m \in S : \A v \in S : v <= m

\* np.max over the values S of a non-empty array: nan propagates.
np_max(S) ==
    IF NaN \in S THEN NaN
    ELSE IF \E f \in S : f.k = "fin"
         THEN Fin(SetMax({f.v : f \in {g \in S : g.k = "fin"}}))
         ELSE NegInf

\* Lines 106-107 for one cell: (a / m) * 255 cast to uint8.  The quotient is
\* nan or infinite when m is 0, -inf or nan (0/0, inf/inf); the C cast of
\* such a value to uint8 is undefined, and u is what the build yields.
ToUint8(a, m, u) ==
    IF a.k = "fin" /\ m.k = "fin" /\ m.v > 0 THEN (a.v * 255) \div m.v
    ELSE IF a.k = "fin" /\ m.k = "ninf" THEN 0
    ELSE u

\* The outcomes of the undefined cast considered: the low byte 0 of the
\* "integer indefinite" value, and the saturated 255.
UndefinedCast == {0, 255}

\* Line 105.
LogScaled(buf) ==
    Array(buf.h, buf.w,
          [c \in Cells(buf.h, buf.w) |-> np_log(buf.at[c] + 1)])

\* Line 106: the divisor np.max(mandelbrot_set).
GlobalMax(buf) == np_max({LogScaled(buf).at[c] : c \in Cells(buf.h, buf.w)})

\* Lines 105-107.
Colorize(buf, u) ==
    Array(buf.h, buf.w,
          [c \in Cells(buf.h, buf.w) |->
              ToUint8(LogScaled(buf).at[c], GlobalMax(buf), u)])

\* ------------------------------------------------------------- the inputs
\* Configurations a caller can pass: the function checks none of its
\* arguments, so non-positive sizes and inverted viewports are among them.
Widths == -1 .. MaxWidth

Heights == -1 .. MaxHeight

Iters == 0 .. MaxIter

TileSizes == -1 .. MaxTile

\* (x_min, x_max): the canonical range [-2, 0.5], a range inside the set,
\* a range outside the radius-2 disc, an empty and an inverted range.
XRanges == { <<0 - 2 * Scale, Scale \div 2>>, <<0 - Scale, 0>>,
             <<2 * Scale, 3 * Scale>>, <<0, 0>>, <<Scale, 0 - Scale>> }

YRanges == { <<0 - Scale, Scale>>, <<0, Scale \div 2>>,
             <<2 * Scale, 3 * Scale>>, <<Scale, Scale>> }

NoValue == [k |-> "none", v |-> 0]

Errors == {"ZeroDivisionError", "ValueError"}

\* Everything but the inputs, before the first statement has run.
Fresh ==
    /\ x_scale = 0 /\ y_scale = 0
    /\ allocated = FALSE
    /\ result = NoArray
    /\ tiles_x = 0 /\ tiles_y = 0
    /\ ty = 0 /\ tx = 0
    /\ X_tile = NoArray /\ Y_tile = NoArray
    /\ tile_result = NoArray
    /\ mandelbrot_set = NoArray
    /\ img = FALSE
    /\ divisor = NoValue
    /\ processed = {}
    /\ writes = NoArray.at

Init ==
    /\ pc = "start"
    /\ width \in Widths /\ height \in Heights
    /\ max_iter \in Iters /\ tile_size \in TileSizes
    /\ \E xr \in XRanges : x_min = xr[1] /\ x_max = xr[2]
    /\ \E yr \in YRanges : y_min = yr[1] /\ y_max = yr[2]
    /\ Fresh

inputs == <<width, height, max_iter, x_min, x_max, y_min, y_max, tile_size>>

\* ----------------------------------------------- render_mandelbrot_tiled
\* Lines 54-55.  A float divided by the int 0 raises ZeroDivisionError.
ComputeScales ==
    /\ pc = "start"
    /\ IF width = 0 \/ height = 0
       THEN /\ pc' = "ZeroDivisionError"
            /\ x_scale' = IF width = 0 THEN x_scale
                          ELSE ScaleOf(x_min, x_max, width)
            /\ y_scale' = y_scale
       ELSE /\ pc' = "alloc"
            /\ x_scale' = ScaleOf(x_min, x_max, width)
            /\ y_scale' = ScaleOf(y_min, y_max, height)
    /\ UNCHANGED <<inputs, allocated, result, tiles_x, tiles_y, ty, tx,
                   X_tile, Y_tile, tile_result, mandelbrot_set, img,
                   divisor, processed, writes>>

\* Line 58.  np.zeros raises ValueError on a negative dimension.
Allocate ==
    /\ pc = "alloc"
    /\ IF width < 0 \/ height < 0
       THEN /\ pc' = "ValueError"
            /\ UNCHANGED <<allocated, result, writes>>
       ELSE /\ pc' = "grid"
            /\ allocated' = TRUE
            /\ result' = np_zeros(height, width)
            /\ writes' = np_zeros(height, width).at
    /\ UNCHANGED <<inputs, x_scale, y_scale, tiles_x, tiles_y, ty, tx,
                   X_tile, Y_tile, tile_result, mandelbrot_set, img,
                   divisor, processed>>

\* Lines 61-63.  An int floor-divided by 0 raises ZeroDivisionError.
TileGrid ==
    /\ pc = "grid"
    /\ IF tile_size = 0
       THEN /\ pc' = "ZeroDivisionError"
            /\ UNCHANGED <<tiles_x, tiles_y>>
       ELSE /\ pc' = "tiles"
            /\ tiles_x' = TileCount(width, tile_size)
            /\ tiles_y' = TileCount(height, tile_size)
    /\ UNCHANGED <<inputs, x_scale, y_scale, allocated, result, ty, tx,
                   X_tile, Y_tile, tile_result, mandelbrot_set, img,
                   divisor, processed, writes>>

\* Lines 76-96 for the tile (ty_, tx_): map, evaluate, place.
TileBody(ty_, tx_) ==
    LET rect == TileRect(ty_, tx_, tile_size, width, height)
        X    == MeshX(rect, x_min, x_scale)
        Y    == MeshY(rect, y_min, y_scale)
        tile == mandelbrot_tile(X, Y, max_iter)
    IN  /\ X_tile' = X
        /\ Y_tile' = Y
        /\ tile_result' = tile
        /\ IF ShapesAgree(result, rect, tile)
           THEN /\ result' = PlaceTile(result, rect, tile)
                /\ writes' = [c \in DOMAIN writes |->
                                 IF c \in SliceCells(result, rect)
                                 THEN writes[c] + 1 ELSE writes[c]]
                /\ processed' = processed \cup {<<ty_, tx_>>}
                /\ pc' = pc
           ELSE /\ pc' = "ValueError"
                /\ UNCHANGED <<result, writes, processed>>

\* One iteration of the loops of lines 73-99.
ProcessTile ==
    /\ pc = "tiles"
    /\ ty < tiles_y /\ tx < tiles_x
    /\ TileBody(ty, tx)
    /\ ty' = NextTile(ty, tx, tiles_x)[1]
    /\ tx' = NextTile(ty, tx, tiles_x)[2]
    /\ UNCHANGED <<inputs, x_scale, y_scale, allocated, tiles_x, tiles_y,
                   mandelbrot_set, img, divisor>>

\* The loops of lines 73-74 run out (at once when a range is empty).
LoopExit ==
    /\ pc = "tiles"
    /\ ~(ty < tiles_y /\ tx < tiles_x)
    /\ pc' = "post"
    /\ UNCHANGED <<inputs, x_scale, y_scale, allocated, result, tiles_x,
                   tiles_y, ty, tx, X_tile, Y_tile, tile_result,
                   mandelbrot_set, img, divisor, processed, writes>>

\* Lines 105-110: log-scale, normalise by the global maximum, cast, wrap.
PostProcess ==
    /\ pc = "post"
    /\ \E u \in UndefinedCast :
          mandelbrot_set' = Colorize(result, u)
    /\ divisor' = GlobalMax(result)
    /\ img' = TRUE
    /\ pc' = "done"
    /\ UNCHANGED <<inputs, x_scale, y_scale, allocated, result, tiles_x,
                   tiles_y, ty, tx, X_tile, Y_tile, tile_result,
                   processed, writes>>

Next ==
    \/ ComputeScales
    \/ Allocate
    \/ TileGrid
    \/ ProcessTile
    \/ LoopExit
    \/ PostProcess

Spec == Init /\ [][Next]_vars

\* The interpreter runs the function to its end: no step is postponed forever.
FairSpec == Spec /\ WF_vars(Next)

\* ------------------------------------------- tiles in any processing order
\* The tile grid of lines 61-62 as a set of (ty, tx) pairs.
AllTiles == (0 .. tiles_y - 1) \X (0 .. tiles_x - 1)

InitAnyOrder ==
    /\ pc = "start"
    /\ width \in 1 .. MaxParWidth /\ height \in 1 .. MaxParHeight
    /\ max_iter \in 1 .. MaxIter /\ tile_size \in 1 .. MaxTile
    /\ \E xr \in XRanges : x_min = xr[1] /\ x_max = xr[2] /\ xr[1] < xr[2]
    /\ \E yr \in YRanges : y_min = yr[1] /\ y_max = yr[2] /\ yr[1] < yr[2]
    /\ Fresh

\* The body of lines 76-96 run for any tile not processed yet: the loop of
\* lines 73-74 with its order given up (a worker pool taking tiles).
ProcessAnyTile ==
    /\ pc = "tiles"
    /\ \E t \in AllTiles \ processed :
          /\ TileBody(t[1], t[2])
          /\ ty' = t[1]
          /\ tx' = t[2]
    /\ UNCHANGED <<inputs, x_scale, y_scale, allocated, tiles_x, tiles_y,
                   mandelbrot_set, img, divisor>>

\* The join before post-processing: every tile has been processed.
JoinTiles ==
    /\ pc = "tiles"
    /\ processed = AllTiles
    /\ pc' = "post"
    /\ UNCHANGED <<inputs, x_scale, y_scale, allocated, result, tiles_x,
                   tiles_y, ty, tx, X_tile, Y_tile, tile_result,
                   mandelbrot_set, img, divisor, processed, writes>>

NextAnyOrder ==
    \/ ComputeScales
    \/ Allocate
    \/ TileGrid
    \/ ProcessAnyTile
    \/ JoinTiles
    \/ PostProcess

SpecAnyOrder == InitAnyOrder /\ [][NextAnyOrder]_vars

\* --------------------------------------------- mandelbrot_tile on its own
\* The coordinates handed to mandelbrot_tile: every representable value of
\* magnitude at most MaxCoord.
Coords == (0 - MaxCoord * Scale) .. (MaxCoord * Scale)

\* A 1 x 1 grid holding v.
Point(v) == Array(1, 1, [c \in Cells(1, 1) |-> v])

\* A caller holding one point (cr, ci) and an iteration cap.
InitTile ==
    /\ pc = "tile_call"
    /\ width = 1 /\ height = 1 /\ tile_size = 1
    /\ x_min = 0 /\ x_max = 0 /\ y_min = 0 /\ y_max = 0
    /\ max_iter \in Iters
    /\ x_scale = 0 /\ y_scale = 0
    /\ allocated = FALSE
    /\ result = NoArray
    /\ tiles_x = 0 /\ tiles_y = 0
    /\ ty = 0 /\ tx = 0
    /\ \E cr \in Coords : X_tile = Point(cr)
    /\ \E ci \in Coords : Y_tile = Point(ci)
    /\ tile_result = NoArray
    /\ mandelbrot_set = NoArray
    /\ img = FALSE
    /\ divisor = NoValue
    /\ processed = {}
    /\ writes = NoArray.at

\* Line 93: tile_result = mandelbrot_tile(X_tile, Y_tile, max_iter).
CallTile ==
    /\ pc = "tile_call"
    /\ tile_result' = mandelbrot_tile(X_tile, Y_tile, max_iter)
    /\ pc' = "tile_done"
    /\ UNCHANGED <<inputs, x_scale, y_scale, allocated, result, tiles_x,
                   tiles_y, ty, tx, X_tile, Y_tile, mandelbrot_set, img,
                   divisor, processed, writes>>

NextTileCall == CallTile

SpecTile == InitTile /\ [][NextTileCall]_vars

\* ================================================================ claims
\* The configurations the claims call valid: positive sizes and cap, and a
\* viewport that is not empty or inverted.
ValidConfig ==
    /\ width > 0 /\ height > 0 /\ max_iter > 0 /\ tile_size > 0
    /\ x_min < x_max /\ y_min < y_max

TilesComputed == pc \in {"tiles", "post", "done"}

TilesFinished == pc \in {"post", "done"}

\* The pixel (x, y) lies in the rectangle of tile t = (ty, tx).
TileHolds(t, x, y) ==
    LET r == TileRect(t[1], t[2], tile_size, width, height)
    IN  /\ r.x_start <= x /\ x < r.x_end
        /\ r.y_start <= y /\ y < r.y_end

\* The rectangle of tile t lies inside the raster.
TileInside(t) ==
    LET r == TileRect(t[1], t[2], tile_size, width, height)
    IN  /\ 0 <= r.x_start /\ r.x_end <= width
        /\ 0 <= r.y_start /\ r.y_end <= height

\* C1: for width, height, tile_size > 0 the tile rectangles of the tile loop
\* cover the raster exactly once: every pixel lies in exactly one tile, and
\* no tile holds a pixel outside the raster.
C1_TilesPartitionRaster ==
    (TilesComputed /\ width > 0 /\ height > 0 /\ tile_size > 0) =>
        /\ \A x \in 0 .. width - 1 : \A y \in 0 .. height - 1 :
              Cardinality({t \in AllTiles : TileHolds(t, x, y)}) = 1
        /\ \A t \in AllTiles : TileInside(t)

\* A raster cut unevenly into at least 2 x 2 tiles.
C1_Witness ==
    /\ pc = "tiles"
    /\ width > 0 /\ height > 0 /\ tile_size > 1
    /\ tiles_x >= 2 /\ tiles_y >= 2
    /\ width % tile_size # 0 /\ height % tile_size # 0

\* The buffer the sequential loops leave for tile size ts, from the inputs
\* and scales of this render.
BufferFor(ts) ==
    TileLoop(np_zeros(height, width), 0, 0, ts, width, height,
             x_min, x_scale, y_min, y_scale, max_iter)

NonUniform(buf) ==
    \E c \in Cells(buf.h, buf.w) : \E d \in Cells(buf.h, buf.w) :
        buf.at[c] # buf.at[d]

\* C2: tile-size invariance: for every valid configuration the Divergence
\* Buffer the render has filled is cell for cell the buffer a single tile of
\* size max(width, height) gives, whether or not tile_size divides the raster.
C2_TileSizeInvariance ==
    (TilesFinished /\ ValidConfig) => result = BufferFor(Max(width, height))

\* A finished render in several tiles that do not divide the raster evenly,
\* whose buffer is not uniform.
C2_Witness ==
    /\ pc = "done" /\ ValidConfig
    /\ tile_size < Max(width, height)
    /\ width % tile_size # 0
    /\ Cardinality(processed) >= 4
    /\ NonUniform(result)

InRange(buf, lo, hi) ==
    \A c \in Cells(buf.h, buf.w) : lo <= buf.at[c] /\ buf.at[c] <= hi

\* C3: with max_iter > 0, once all tiles are processed every cell of the
\* Divergence Buffer holds a count in 0 .. max_iter - 1, and so does every
\* cell of every grid mandelbrot_tile has returned.
C3_CountsBounded ==
    (max_iter > 0) =>
        /\ InRange(tile_result, 0, max_iter - 1)
        /\ TilesFinished => InRange(result, 0, max_iter - 1)

\* A finished render holding both an escaped cell and a cell at the cap.
C3_Witness ==
    /\ pc = "done" /\ ValidConfig /\ max_iter >= 3
    /\ \E c \in Cells(height, width) : result.at[c] = max_iter - 1
    /\ \E c \in Cells(height, width) : result.at[c] = 1

\* ------------------------------------------------ claims on one point
\* The point and the count of the tile call.
PointCr == X_tile.at[<<0, 0>>]

PointCi == Y_tile.at[<<0, 0>>]

PointCount == tile_result.at[<<0, 0>>]

\* cr * cr + ci * ci > 4.0, as the floating-point test of line 32 finds it.
OutsideRadius2 ==
    FMul(PointCr, PointCr) + FMul(PointCi, PointCi) > threshold * Scale

\* C4 as stated: a point with |c| > 2 is recorded with the count 0, for any
\* max_iter > 0.
C4_OutsideCountsZero ==
    (pc = "tile_done" /\ max_iter > 0 /\ OutsideRadius2) => PointCount = 0

\* C4 amended: a point with |c| > 2 is recorded with the count 1 when
\* max_iter >= 2 (iteration 0 tests z = 0, iteration 1 tests z = c), and
\* with max_iter - 1 = 0 when max_iter = 1.
C4_OutsideCountsOne ==
    (pc = "tile_done" /\ max_iter > 0 /\ OutsideRadius2) =>
        PointCount = Min(1, max_iter - 1)

\* The point 3 + 3i evaluated with the largest cap.
C4_Witness ==
    /\ pc = "tile_done" /\ max_iter = MaxIter
    /\ PointCr = 3 * Scale /\ PointCi = 3 * Scale
    /\ OutsideRadius2
    /\ PointCount = 1

\* The orbit z_0 = 0, z_{k+1} = z_k^2 + c of the point of the tile call,
\* both components computed from the previous z.
RECURSIVE Orbit(_)
Orbit(k) ==
    IF k = 0 THEN <<0, 0>>
    ELSE LET z == Orbit(k - 1)
         IN  <<FMul(z[1], z[1]) - FMul(z[2], z[2]) + PointCr,
               FMul(2 * z[1], z[2]) + PointCi>>

\* z_k lies outside the escape radius: zr^2 + zi^2 > 4.
Escaped(k) ==
    FMul(Orbit(k)[1], Orbit(k)[1]) + FMul(Orbit(k)[2], Orbit(k)[2])
        > threshold * Scale

\* C8: for max_iter > 0 the recorded count n is the least k in
\* 0 .. max_iter - 1 with z_k escaped, and max_iter - 1 if there is none:
\* no z_j with j < n has escaped, and z_n has escaped or n = max_iter - 1.
C8_LeastEscapeOrCap ==
    (pc = "tile_done" /\ max_iter > 0) =>
        /\ PointCount \in 0 .. max_iter - 1
        /\ \A j \in 0 .. PointCount - 1 : ~Escaped(j)
        /\ Escaped(PointCount) \/ PointCount = max_iter - 1

\* A point whose orbit first escapes at the last iteration, k = max_iter - 1,
\* and whose count is the one of a point that never escapes.
C8_Witness ==
    /\ pc = "tile_done" /\ max_iter = MaxIter
    /\ PointCount = max_iter - 1
    /\ Escaped(max_iter - 1)
    /\ \A j \in 0 .. max_iter - 2 : ~Escaped(j)

\* ------------------------------------------ claims on the whole render
Uniform(buf, v) == \A c \in Cells(buf.h, buf.w) : buf.at[c] = v

\* C5: a render whose Divergence Buffer is uniformly max_iter - 1 (no point
\* escaped; all counts 0 included) ends with a uniformly black image, and
\* the normalisation never divides by a global maximum of zero.
C5_DegenerateIsBlack ==
    (pc = "done" /\ ValidConfig /\ Uniform(result, max_iter - 1)) =>
        /\ Uniform(mandelbrot_set, 0)
        /\ divisor # Fin(0)

\* C6: an invalid configuration is rejected eagerly: the render gets no
\* further than an error raised before the Divergence Buffer is allocated,
\* evaluates no tile and produces no image.
C6_InvalidRejectedEagerly ==
    (~ValidConfig) =>
        /\ pc \in {"start", "alloc"} \cup Errors
        /\ ~allocated
        /\ tile_result = NoArray
        /\ ~img

\* C7: tiles processed in any order leave, once all are done, the Divergence
\* Buffer the sequential row-major loops leave for the same configuration.
C7_OrderIndependent ==
    TilesFinished => result = BufferFor(tile_size)

\* A finished render of at least four tiles in which the first row-major
\* tile was processed last, with a buffer that is not uniform.
C7_Witness ==
    /\ pc = "done"
    /\ Cardinality(processed) >= 4
    /\ ty = 0 /\ tx = 0
    /\ NonUniform(result)

\* Every cell of the buffer has been assigned exactly once.
EachCellWrittenOnce == \A c \in DOMAIN writes : writes[c] = 1

\* A cell the tile loop has assigned keeps its value and is not assigned
\* again in this step.
WrittenCellsKept ==
    \A c \in DOMAIN writes :
        (writes[c] >= 1) =>
            /\ c \in DOMAIN writes'
            /\ writes'[c] = writes[c]
            /\ result'.at[c] = result.at[c]

\* C9: in a render with valid inputs every cell of the Divergence Buffer is
\* assigned exactly once by the tile loop, and once assigned its value never
\* changes: neither a later tile nor post-processing touches it.
C9_WrittenOnceNeverMutated ==
    /\ []((TilesFinished /\ ValidConfig) => EachCellWrittenOnce)
    /\ [][ValidConfig => WrittenCellsKept]_vars

\* A finished render of at least four tiles, each cell assigned once.
C9_Witness ==
    /\ pc = "done" /\ ValidConfig
    /\ Cardinality(processed) >= 4
    /\ EachCellWrittenOnce
    /\ mandelbrot_set # NoArray

\* The least q with q * d >= n, for n, d > 0.
CeilDiv(n, d) == CHOOSE q \in 0 .. n : q * d >= n /\ (q - 1) * d < n

\* Every tile of the grid has written its region of the buffer.
AllTilesWritten ==
    /\ Cardinality(processed)
          = CeilDiv(width, tile_size) * CeilDiv(height, tile_size)
    /\ \A c \in Cells(height, width) : writes[c] >= 1

\* C10: with valid inputs the reduction and normalisation of post-processing
\* start only after all ceil(width / tile_size) * ceil(height / tile_size)
\* tiles have written their region, and the render reaches that step.
C10_BarrierBeforePostProcess ==
    /\ []((ValidConfig /\ (pc = "post" \/ divisor # NoValue))
             => AllTilesWritten)
    /\ (ValidConfig /\ pc = "start") ~> (pc = "post")

\* Post-processing about to start after at least four tiles.
C10_Witness ==
    /\ pc = "post" /\ ValidConfig
    /\ Cardinality(processed) >= 4
    /\ AllTilesWritten

====
